---- MODULE Spec2Model ----
(***************************************************************************)
(* A model of src/src/utils/matrix3d.ts: the 2D/3D vector algebra, the     *)
(* basis/matrix conversion, decomposition and representation, the          *)
(* projection plane of a coordinate system and the demo cuboid.            *)
(*                                                                         *)
(* Numbers.  A JavaScript number is modelled as one of                     *)
(*   NaN, +Infinity, -Infinity, or a finite real  sum_i (n_i/d_i)*sqrt(r_i) *)
(* kept in canonical form (r_i distinct and squarefree, n_i/d_i reduced    *)
(* and nonzero), so that equality of the records is equality of the reals. *)
(* Arithmetic on finite values is exact (rounding and overflow of IEEE     *)
(* doubles are not modelled); NaN and the infinities follow IEEE 754.      *)
(* -0 is identified with 0: every divisor the code can make zero is a sum  *)
(* of squares, its square root or e.offsetX, hence +0, and 0 === -0.       *)
(*                                                                         *)
(* Objects.  Vectors are mutable objects: the heap is a sequence of vector *)
(* objects and a reference is an index into it.  Every function of the     *)
(* source takes the heap and returns the heap after the call together with *)
(* its result, so that in-place updates and aliasing are those of the code.*)
(***************************************************************************)
EXTENDS Integers, Sequences, FiniteSets, TLC

----------------------------------------------------------------------------
(* Integer helpers                                                         *)

Abs(i) == IF i < 0 THEN -i ELSE i

RECURSIVE GCDNat(_, _)
GCDNat(a, b) == IF b = 0 THEN a ELSE GCDNat(b, a % b)

GCD(a, b) == GCDNat(Abs(a), Abs(b))

RECURSIVE ISqrtIn(_, _, _)
\* lo*lo <= m < hi*hi
ISqrtIn(m, lo, hi) ==
  IF hi - lo <= 1 THEN lo
  ELSE LET mid == (lo + hi) \div 2
       IN IF mid * mid <= m THEN ISqrtIn(m, mid, hi) ELSE ISqrtIn(m, lo, mid)

\* floor(sqrt(m)) for 0 <= m < 2^31, the integers of the model
\* (46341 is the least integer whose square is 2^31 or more)
ISqrt(m) == ISqrtIn(m, 0, 46341)

RoundUp(lo, m) == IF lo * lo = m THEN lo ELSE lo + 1

\* ceiling(sqrt(m)) for 0 <= m < 2^31
ISqrtUp(m) == RoundUp(ISqrt(m), m)

\* the largest member of a nonempty finite set of integers
Largest(S) == CHOOSE s \in S : \A t \in S : t <= s

\* the largest s >= 1 with s*s dividing m, for m >= 1
SquarePart(m) == Largest({s \in 1..ISqrt(m) : m % (s * s) = 0})

----------------------------------------------------------------------------
(* JavaScript numbers                                                      *)

NaN == [k |-> "nan", s |-> 0, t |-> {}]
PInf == [k |-> "inf", s |-> 1, t |-> {}]
NInf == [k |-> "inf", s |-> -1, t |-> {}]
\* the value undefined (an absent property)
Undef == [k |-> "undef", s |-> 0, t |-> {}]

Fin(terms) == [k |-> "fin", s |-> 0, t |-> terms]
Zero == Fin({})

Reduce(r, n, d, g) == [r |-> r, n |-> n \div g, d |-> d \div g]

Positive(t) == IF t.d < 0 THEN [r |-> t.r, n |-> -t.n, d |-> -t.d] ELSE t

\* the term (n/d)*sqrt(r), reduced; d # 0
Term(r, n, d) == Positive(Reduce(r, n, d, GCD(n, d)))

\* the rational n/d and the integer n
Q(n, d) == IF n = 0 THEN Zero ELSE Fin({Term(1, n, d)})
I(n) == Q(n, 1)
\* (n/d)*sqrt(r), r squarefree
Surd(n, d, r) == IF n = 0 THEN Zero ELSE Fin({Term(r, n, d)})

Inf(sign) == IF sign < 0 THEN NInf ELSE PInf

\* ToNumber: undefined converts to NaN
ToNum(a) == IF a = Undef THEN NaN ELSE a

IsFinite(a) == a.k = "fin"
IsNaN(a) == a.k = "nan"

\* coefficient <<n, d>> of sqrt(r) in a set of terms
Coef(terms, r) ==
  IF \E t \in terms : t.r = r
  THEN LET t == CHOOSE t \in terms : t.r = r IN <<t.n, t.d>>
  ELSE <<0, 1>>

\* (p[1]/p[2] + q[1]/q[2]) * sqrt(r), over the least common denominator
\* (g = gcd(p[2], q[2]))
SumTermOver(p, q, r, g) ==
  Term(r, p[1] * (q[2] \div g) + q[1] * (p[2] \div g), (p[2] \div g) * q[2])

SumTerm(p, q, r) == SumTermOver(p, q, r, GCD(p[2], q[2]))

SumAt(S, T, r) == SumTerm(Coef(S, r), Coef(T, r), r)

AddTerms(S, T) ==
  {t \in {SumAt(S, T, r) : r \in {t.r : t \in S \cup T}} : t.n # 0}

\* (n1/d1)sqrt(r1) * (n2/d2)sqrt(r2) = (g*n1*n2/(d1*d2)) sqrt(r1*r2/g^2), g = gcd(r1, r2)
MulTermBy(a, b, g) ==
  Term((a.r \div g) * (b.r \div g), g * a.n * b.n, a.d * b.d)

MulTerm(a, b) == MulTermBy(a, b, GCD(a.r, b.r))

RECURSIVE MulTermSet(_, _)
MulTermSet(a, T) ==
  IF T = {} THEN {}
  ELSE LET b == CHOOSE b \in T : TRUE
       IN AddTerms({MulTerm(a, b)}, MulTermSet(a, T \ {b}))

RECURSIVE MulTerms(_, _)
MulTerms(S, T) ==
  IF S = {} THEN {}
  ELSE LET a == CHOOSE a \in S : TRUE
       IN AddTerms(MulTermSet(a, T), MulTerms(S \ {a}, T))

RECURSIVE DenProduct(_)
DenProduct(terms) ==
  IF terms = {} THEN 1
  ELSE LET u == CHOOSE u \in terms : TRUE IN u.d * DenProduct(terms \ {u})

\* an integer bound of 1000 * n * sqrt(r), from above (up) or from below
\* (1000000 * r is an integer of the model for r < 2148)
TermBound(t, up) ==
  t.n * (IF (t.n > 0) = up THEN ISqrtUp(1000000 * t.r) ELSE ISqrt(1000000 * t.r))

RECURSIVE BoundSum(_, _)
\* a lower (up = FALSE) or upper (up = TRUE) bound of
\* 1000 * D * value, D the product of the denominators
BoundSum(terms, up) ==
  IF terms = {} THEN 0
  ELSE LET t == CHOOSE t \in terms : TRUE
       IN TermBound(t, up) * DenProduct(terms \ {t})
          + t.d * BoundSum(terms \ {t}, up)

\* a rigorous sign: the sign sg for which the bound of sg * value on the
\* side of zero is positive
Sign(a) ==
  IF a.k = "inf" THEN a.s
  ELSE IF a.t = {} THEN 0
  ELSE CHOOSE sg \in {1, -1} : sg * BoundSum(a.t, sg < 0) > 0

RECURSIVE SignOfProduct(_)
\* the sign of a product is the product of the signs of its factors
SignOfProduct(factors) ==
  IF factors = << >> THEN 1
  ELSE Sign(Head(factors)) * SignOfProduct(Tail(factors))

AddNumbers(a, b) ==
  IF IsNaN(a) \/ IsNaN(b) THEN NaN
  ELSE IF a.k = "inf" THEN (IF b.k = "inf" /\ b.s # a.s THEN NaN ELSE a)
  ELSE IF b.k = "inf" THEN b
  ELSE Fin(AddTerms(a.t, b.t))

\* a + b
AddNum(a, b) == AddNumbers(ToNum(a), ToNum(b))

MulNumbers(a, b) ==
  IF IsNaN(a) \/ IsNaN(b) THEN NaN
  ELSE IF a.k = "inf" \/ b.k = "inf"
       THEN (IF a = Zero \/ b = Zero THEN NaN ELSE Inf(SignOfProduct(<<a, b>>)))
  ELSE Fin(MulTerms(a.t, b.t))

\* a * b
MulNum(a, b) == MulNumbers(ToNum(a), ToNum(b))

\* 1 / ((n/d) sqrt(r)) = (d/(n*r)) sqrt(r)
InvTerm(t) == Term(t.r, t.d, t.n * t.r)

\* the reciprocal of a finite nonzero value with one radical; a divisor
\* with several radicals is outside the modelled domain
InvTerms(terms) == {InvTerm(CHOOSE t \in terms : Cardinality(terms) = 1)}

NegNumber(a) ==
  IF IsNaN(a) THEN NaN
  ELSE IF a.k = "inf" THEN Inf(-a.s)
  ELSE Fin({[r |-> t.r, n |-> -t.n, d |-> t.d] : t \in a.t})

\* -a
NegNum(a) == NegNumber(ToNum(a))

\* a - b = a + (-b)
SubNum(a, b) == AddNum(a, NegNum(b))

DivNumbers(a, b) ==
  IF IsNaN(a) \/ IsNaN(b) THEN NaN
  ELSE IF b = Zero
       THEN (IF a = Zero THEN NaN ELSE Inf(Sign(a)))
  ELSE IF b.k = "inf"
       THEN (IF a.k = "inf" THEN NaN ELSE Zero)
  ELSE IF a.k = "inf" THEN Inf(SignOfProduct(<<a, b>>))
  ELSE Fin(MulTerms(a.t, InvTerms(b.t)))

\* a / b
DivNum(a, b) == DivNumbers(ToNum(a), ToNum(b))

SqrtTerm(m, sq, d) == Fin({Term(m \div (sq * sq), sq, d)})

\* sqrt(n/d) = sqrt(n*d)/d; a finite argument is rational in the modelled
\* domain
SqrtTerms(terms) ==
  LET t == CHOOSE t \in terms : Cardinality(terms) = 1 /\ t.r = 1
  IN IF t.n < 0 THEN NaN
     ELSE SqrtTerm(t.n * t.d, SquarePart(t.n * t.d), t.d)

SqrtNumber(a) ==
  IF IsNaN(a) THEN NaN
  ELSE IF a.k = "inf" THEN (IF a.s > 0 THEN PInf ELSE NaN)
  ELSE IF a = Zero THEN Zero
  ELSE SqrtTerms(a.t)

\* Math.sqrt
SqrtNum(a) == SqrtNumber(ToNum(a))

\* value || 0 : undefined, NaN and 0 are falsy
OrZero(a) == IF a = Undef \/ a = NaN \/ a = Zero THEN Zero ELSE a

----------------------------------------------------------------------------
(* The functions of matrix3d.ts.  h is the heap (a sequence of vector      *)
(* objects [x, y, z], z = Undef for a 2D vector); a vector argument is a   *)
(* reference.  A function that allocates or mutates returns                *)
(* [h |-> the heap after the call, r |-> its result].                      *)

\* "const x = value; rest" is written Only([x \in {value} |-> rest]):
\* value is evaluated once, before rest
Only(f) == f[CHOOSE x \in DOMAIN f : TRUE]

\* a new object
Alloc(h, obj) == [h |-> Append(h, obj), r |-> Len(h) + 1]

Vec(x, y, z) == [x |-> x, y |-> y, z |-> z]

\* the module constant ZERO is the first object of every heap
ZERO == 1
ZEROValue == Vec(Zero, Zero, Zero)

Point(h, x, y, z) ==
  Alloc(h, IF z # Undef THEN Vec(x, y, z) ELSE Vec(x, y, Undef))

is3D(h, vector) == h[vector].z # Undef

isZero(h, vector) ==
  \/ vector = ZERO
  \/ /\ h[vector].x = Zero
     /\ h[vector].y = Zero
     /\ (~is3D(h, vector) \/ h[vector].z = Zero)

cloneOf(h, vector) == Alloc(h, h[vector])

toArray(h, vector) ==
  IF is3D(h, vector)
  THEN <<h[vector].x, h[vector].y, h[vector].z>>
  ELSE <<h[vector].x, h[vector].y>>

\* row[j], undefined past the end of the array
Elt(row, j) == IF j <= Len(row) THEN row[j] ELSE Undef

\* basis3DFromMatrix reading the columns of the matrix instead of its rows
basis3DFromMatrixColumns(h, matrix) ==
  Only([px \in {Point(h, Elt(matrix[1], 1), Elt(matrix[2], 1), Elt(matrix[3], 1))} |->
  Only([py \in {Point(px.h, Elt(matrix[1], 2), Elt(matrix[2], 2), Elt(matrix[3], 2))} |->
  Only([pz \in {Point(py.h, Elt(matrix[1], 3), Elt(matrix[2], 3), Elt(matrix[3], 3))} |->
  [h |-> pz.h, r |-> [xBasis |-> px.r, yBasis |-> py.r, zBasis |-> pz.r]]])])])

basis3DFromMatrix(h, matrix) ==
  Only([px \in {Point(h, Elt(matrix[1], 1), Elt(matrix[1], 2), Elt(matrix[1], 3))} |->
  Only([py \in {Point(px.h, Elt(matrix[2], 1), Elt(matrix[2], 2), Elt(matrix[2], 3))} |->
  Only([pz \in {Point(py.h, Elt(matrix[3], 1), Elt(matrix[3], 2), Elt(matrix[3], 3))} |->
  [h |-> pz.h, r |-> [xBasis |-> px.r, yBasis |-> py.r, zBasis |-> pz.r]]])])])

matrixOfBasis3D(h, basis) ==
  <<toArray(h, basis.xBasis), toArray(h, basis.yBasis), toArray(h, basis.zBasis)>>

\* dotOf taking the z term whenever one of the two vectors is 3D
dotOfEither3D(h, a, b) ==
  IF is3D(h, a) \/ is3D(h, b)
  THEN AddNum(AddNum(MulNum(h[a].x, h[b].x), MulNum(h[a].y, h[b].y)),
              MulNum(h[a].z, h[b].z))
  ELSE AddNum(MulNum(h[a].x, h[b].x), MulNum(h[a].y, h[b].y))

dotOf(h, a, b) ==
  IF is3D(h, a) /\ is3D(h, b)
  THEN AddNum(AddNum(MulNum(h[a].x, h[b].x), MulNum(h[a].y, h[b].y)),
              MulNum(h[a].z, h[b].z))
  ELSE AddNum(MulNum(h[a].x, h[b].x), MulNum(h[a].y, h[b].y))

radiusOf(h, vector) == SqrtNum(dotOf(h, vector, vector))

multiplyOn(h, vector, coefficient) ==
  [h |-> [h EXCEPT ![vector] =
            Vec(MulNum(@.x, coefficient), MulNum(@.y, coefficient),
                IF is3D(h, vector) THEN MulNum(@.z, coefficient) ELSE @.z)],
   r |-> vector]

addOn(h, vector, append) ==
  [h |-> [h EXCEPT ![vector] =
            Vec(AddNum(@.x, OrZero(h[append].x)),
                AddNum(@.y, OrZero(h[append].y)),
                IF is3D(h, vector) THEN AddNum(@.z, OrZero(h[append].z)) ELSE @.z)],
   r |-> vector]

substractOn(h, vector, append) ==
  [h |-> [h EXCEPT ![vector] =
            Vec(SubNum(@.x, h[append].x), SubNum(@.y, h[append].y),
                IF is3D(h, vector) /\ is3D(h, append)
                THEN SubNum(@.z, h[append].z) ELSE @.z)],
   r |-> vector]

unitization(h, vector) ==
  Only([radius \in {radiusOf(h, vector)} |->
  Alloc(h, Vec(DivNum(h[vector].x, radius), DivNum(h[vector].y, radius),
               IF is3D(h, vector) THEN DivNum(h[vector].z, radius) ELSE Undef))])

decomposeOnAxis(h, vector, axis) ==
  DivNum(dotOf(h, vector, axis), dotOf(h, axis, axis))

decomposition(h, vector, basis) ==
  Alloc(h, Vec(decomposeOnAxis(h, vector, basis.xBasis),
               decomposeOnAxis(h, vector, basis.yBasis),
               IF is3D(h, vector)
               THEN decomposeOnAxis(h, vector, basis.zBasis) ELSE Undef))

projection(h, vector, axis) ==
  DivNum(dotOf(h, vector, axis), radiusOf(h, axis))

\* representationOf as it would be if addOn returned a new vector instead of
\* the updated x: the result would miss the z term
representationOfMissingZ(h, vector, basis) ==
  Only([cx \in {cloneOf(h, basis.xBasis)} |->
  Only([x \in {multiplyOn(cx.h, cx.r, h[vector].x)} |->
  Only([cy \in {cloneOf(x.h, basis.yBasis)} |->
  Only([y \in {multiplyOn(cy.h, cy.r, h[vector].y)} |->
  Only([sum \in {addOn(y.h, x.r, y.r)} |->
  Only([result \in {cloneOf(sum.h, sum.r)} |->
  IF is3D(h, vector)
  THEN Only([cz \in {cloneOf(result.h, basis.zBasis)} |->
       Only([z \in {multiplyOn(cz.h, cz.r, h[vector].z)} |->
       [h |-> addOn(z.h, x.r, z.r).h, r |-> result.r]])])
  ELSE result])])])])])])

representationOf(h, vector, basis) ==
  Only([cx \in {cloneOf(h, basis.xBasis)} |->
  Only([x \in {multiplyOn(cx.h, cx.r, h[vector].x)} |->
  Only([cy \in {cloneOf(x.h, basis.yBasis)} |->
  Only([y \in {multiplyOn(cy.h, cy.r, h[vector].y)} |->
  Only([result \in {addOn(y.h, x.r, y.r)} |->
  IF is3D(h, vector)
  THEN Only([cz \in {cloneOf(result.h, basis.zBasis)} |->
       Only([z \in {multiplyOn(cz.h, cz.r, h[vector].z)} |->
       [h |-> addOn(z.h, x.r, z.r).h, r |-> result.r]])])
  ELSE result])])])])])

RECURSIVE InnerProduct(_, _, _, _, _, _)
\* the loop over k of matrixMultiplication from k on, result[i][j] being sum:
\* result[i][j] += a[i][k] * b[k][j]
InnerProduct(a, b, i, j, k, sum) ==
  IF k > Len(a[i]) THEN sum
  ELSE InnerProduct(a, b, i, j, k + 1, AddNum(sum, MulNum(a[i][k], Elt(b[k], j))))

\* matrixMultiplication with "result[i][j] =" for "result[i][j] +=": only the
\* last product of each sum is kept
matrixMultiplicationLastTerm(a, b) ==
  [i \in 1..Len(a) |-> [j \in 1..Len(b[1]) |->
     MulNum(a[i][Len(a[i])], Elt(b[Len(a[i])], j))]]

\* matrixMultiplication with its operands taken in the other order
matrixMultiplicationSwapped(a, b) ==
  [i \in 1..Len(b) |-> [j \in 1..Len(a[1]) |-> InnerProduct(b, a, i, j, 1, Zero)]]

matrixMultiplication(a, b) ==
  [i \in 1..Len(a) |-> [j \in 1..Len(b[1]) |-> InnerProduct(a, b, i, j, 1, Zero)]]

\* crossProductOf with the terms of its y component exchanged
crossProductOfSignSlip(h, a, b) ==
  Alloc(h, Vec(SubNum(MulNum(h[a].y, h[b].z), MulNum(h[b].y, h[a].z)),
               SubNum(MulNum(h[a].x, h[b].z), MulNum(h[a].z, h[b].x)),
               SubNum(MulNum(h[a].x, h[b].y), MulNum(h[a].y, h[b].x))))

crossProductOf(h, a, b) ==
  Alloc(h, Vec(SubNum(MulNum(h[a].y, h[b].z), MulNum(h[b].y, h[a].z)),
               SubNum(MulNum(h[a].z, h[b].x), MulNum(h[a].x, h[b].z)),
               SubNum(MulNum(h[a].x, h[b].y), MulNum(h[a].y, h[b].x))))

rotateBasis3D(h, basis, rotation) ==
  basis3DFromMatrix(h, matrixMultiplication(matrixOfBasis3D(h, basis),
                                            matrixOfBasis3D(h, rotation)))

\* planeProjection of the point itself, plane.origin not subtracted
planeProjectionOfPoint(h, point, plane) ==
  Only([cx \in {cloneOf(h, point)} |->
  Only([px \in {projection(cx.h, cx.r, plane.xBasis)} |->
  Only([cy \in {cloneOf(cx.h, point)} |->
  Only([py \in {projection(cy.h, cy.r, plane.yBasis)} |->
  Alloc(cy.h, Vec(px, py, Undef))])])])])

planeProjection(h, point, plane) ==
  Only([cx \in {cloneOf(h, point)} |->
  Only([sx \in {substractOn(cx.h, cx.r, plane.origin)} |->
  Only([px \in {projection(sx.h, sx.r, plane.xBasis)} |->
  Only([cy \in {cloneOf(sx.h, point)} |->
  Only([sy \in {substractOn(cy.h, cy.r, plane.origin)} |->
  Only([py \in {projection(sy.h, sy.r, plane.yBasis)} |->
  Alloc(sy.h, Vec(px, py, Undef))])])])])])])

\* visualPlaneOf with the zero vector in the place of the screen's y axis
visualPlaneOfZeroAxis(h, c) ==
  Only([cz \in {cloneOf(h, ZERO)} |->
  Only([so \in {substractOn(cz.h, cz.r, c.origin)} |->
  Only([o \in {decomposition(so.h, so.r, c.basis)} |->
  Only([ex \in {Alloc(o.h, Vec(I(1), Zero, Zero))} |->
  Only([xb \in {decomposition(ex.h, ex.r, c.basis)} |->
  Only([ey \in {Alloc(xb.h, Vec(Zero, Zero, Zero))} |->
  Only([yb \in {decomposition(ey.h, ey.r, c.basis)} |->
  [h |-> yb.h, r |-> [origin |-> o.r, xBasis |-> xb.r, yBasis |-> yb.r]]])])])])])])])

\* visualPlaneOf subtracting c.origin from ZERO itself, not from a copy
visualPlaneOfNoClone(h, c) ==
  Only([so \in {substractOn(h, ZERO, c.origin)} |->
  Only([o \in {decomposition(so.h, so.r, c.basis)} |->
  Only([ex \in {Alloc(o.h, Vec(I(1), Zero, Zero))} |->
  Only([xb \in {decomposition(ex.h, ex.r, c.basis)} |->
  Only([ey \in {Alloc(xb.h, Vec(Zero, I(1), Zero))} |->
  Only([yb \in {decomposition(ey.h, ey.r, c.basis)} |->
  [h |-> yb.h, r |-> [origin |-> o.r, xBasis |-> xb.r, yBasis |-> yb.r]]])])])])])])

visualPlaneOf(h, c) ==
  Only([cz \in {cloneOf(h, ZERO)} |->
  Only([so \in {substractOn(cz.h, cz.r, c.origin)} |->
  Only([o \in {decomposition(so.h, so.r, c.basis)} |->
  Only([ex \in {Alloc(o.h, Vec(I(1), Zero, Zero))} |->
  Only([xb \in {decomposition(ex.h, ex.r, c.basis)} |->
  Only([ey \in {Alloc(xb.h, Vec(Zero, I(1), Zero))} |->
  Only([yb \in {decomposition(ey.h, ey.r, c.basis)} |->
  [h |-> yb.h, r |-> [origin |-> o.r, xBasis |-> xb.r, yBasis |-> yb.r]]])])])])])])])

\* screenPositionOf without the addition of plane.origin
screenPositionOfNoOrigin(h, c, position) ==
  Only([plane \in {visualPlaneOf(h, c)} |->
  Only([ux \in {unitization(plane.h, plane.r.xBasis)} |->
  Only([mx \in {multiplyOn(ux.h, ux.r, h[position].x)} |->
  Only([uy \in {unitization(mx.h, plane.r.yBasis)} |->
  Only([my \in {multiplyOn(uy.h, uy.r, h[position].y)} |->
  addOn(my.h, mx.r, my.r)])])])])])

screenPositionOf(h, c, position) ==
  Only([plane \in {visualPlaneOf(h, c)} |->
  Only([ux \in {unitization(plane.h, plane.r.xBasis)} |->
  Only([mx \in {multiplyOn(ux.h, ux.r, h[position].x)} |->
  Only([uy \in {unitization(mx.h, plane.r.yBasis)} |->
  Only([my \in {multiplyOn(uy.h, uy.r, h[position].y)} |->
  Only([sum \in {addOn(my.h, mx.r, my.r)} |->
  addOn(sum.h, sum.r, plane.r.origin)])])])])])])

\* the style of a line that has none
NoStyle == "none"

\* projectLine with line.start projected for both ends
projectLineOfStart(h, line, plane) ==
  Only([s \in {planeProjection(h, line.start, plane)} |->
  Only([e \in {planeProjection(s.h, line.start, plane)} |->
  [h |-> e.h, r |-> [start |-> s.r, end |-> e.r, style |-> NoStyle]]])])

projectLine(h, line, plane) ==
  Only([s \in {planeProjection(h, line.start, plane)} |->
  Only([e \in {planeProjection(s.h, line.end, plane)} |->
  [h |-> e.h, r |-> [start |-> s.r, end |-> e.r, style |-> NoStyle]]])])

\* one segment of TestCuboid.lines
Edge(start, end, style) == [start |-> start, end |-> end, style |-> style]

\* the eight corners p0..p7 of TestCuboid.lines, in the order they are made
Corners(h, a, b, c) ==
  Only([p0 \in {Point(h, NegNum(a), NegNum(b), NegNum(c))} |->
  Only([p1 \in {Point(p0.h, a, NegNum(b), NegNum(c))} |->
  Only([p2 \in {Point(p1.h, a, b, NegNum(c))} |->
  Only([p3 \in {Point(p2.h, NegNum(a), b, NegNum(c))} |->
  Only([p4 \in {Point(p3.h, NegNum(a), NegNum(b), c)} |->
  Only([p5 \in {Point(p4.h, a, NegNum(b), c)} |->
  Only([p6 \in {Point(p5.h, a, b, c)} |->
  Only([p7 \in {Point(p6.h, NegNum(a), b, c)} |->
  [h |-> p7.h, r |-> <<p0.r, p1.r, p2.r, p3.r, p4.r, p5.r, p6.r, p7.r>>]])])])])])])])])

\* lines with its last edge drawn from p7 to p5, a diagonal of the top face
linesWithDiagonal(h, a, b, c) ==
  Only([ps \in {Corners(h, a, b, c)} |->
  Only([p \in {ps.r} |->
  Only([pa \in {Point(ps.h, a, Zero, Zero)} |->
  [h |-> pa.h,
   r |-> << Edge(p[1], p[2], "red"), Edge(p[2], p[3], "green"),
            Edge(p[3], p[4], "red"), Edge(p[4], p[1], "blue"),
            Edge(p[1], p[5], "blue"), Edge(p[2], p[6], "green"),
            Edge(p[3], p[7], "green"), Edge(p[4], p[8], "blue"),
            Edge(p[5], p[6], "red"), Edge(p[6], p[7], "green"),
            Edge(p[7], p[8], "red"), Edge(p[8], p[6], "blue"),
            Edge(ZERO, pa.r, NoStyle) >>]])])])

\* TestCuboid.lines() of the current version: 12 styled edges and the axis
\* mark; p[i + 1] is the corner p<i> of the source
lines(h, a, b, c) ==
  Only([ps \in {Corners(h, a, b, c)} |->
  Only([p \in {ps.r} |->
  Only([pa \in {Point(ps.h, a, Zero, Zero)} |->
  [h |-> pa.h,
   r |-> << Edge(p[1], p[2], "red"), Edge(p[2], p[3], "green"),
            Edge(p[3], p[4], "red"), Edge(p[4], p[1], "blue"),
            Edge(p[1], p[5], "blue"), Edge(p[2], p[6], "green"),
            Edge(p[3], p[7], "green"), Edge(p[4], p[8], "blue"),
            Edge(p[5], p[6], "red"), Edge(p[6], p[7], "green"),
            Edge(p[7], p[8], "red"), Edge(p[8], p[5], "blue"),
            Edge(ZERO, pa.r, NoStyle) >>]])])])

\* the lines getter of the earlier version: 12 edges, no style
linesGetter(h, a, b, c) ==
  Only([ps \in {Corners(h, a, b, c)} |->
  Only([p \in {ps.r} |->
  [h |-> ps.h,
   r |-> << Edge(p[1], p[2], NoStyle), Edge(p[2], p[3], NoStyle),
            Edge(p[3], p[4], NoStyle), Edge(p[4], p[1], NoStyle),
            Edge(p[1], p[5], NoStyle), Edge(p[2], p[6], NoStyle),
            Edge(p[3], p[7], NoStyle), Edge(p[4], p[8], NoStyle),
            Edge(p[5], p[6], NoStyle), Edge(p[6], p[7], NoStyle),
            Edge(p[7], p[8], NoStyle), Edge(p[8], p[5], NoStyle) >>]])])

RECURSIVE drawLoop(_, _, _, _, _)
\* the for loop of TestCuboid.draw from line i on, after the drawLine calls
\* done: each call is [line |-> the projected segment, style |-> its third
\* argument]
drawLoop(h, ls, plane, i, done) ==
  IF i > Len(ls) THEN [h |-> h, r |-> done]
  ELSE Only([p \in {projectLine(h, ls[i], plane)} |->
       drawLoop(p.h, ls, plane, i + 1,
                Append(done, [line |-> p.r, style |-> ls[i].style]))])

\* TestCuboid.draw: the drawLine calls it makes and the centre of its arc
draw(h, coor, a, b, c) ==
  Only([plane \in {visualPlaneOf(h, coor)} |->
  Only([ls \in {lines(plane.h, a, b, c)} |->
  Only([loop \in {drawLoop(ls.h, ls.r, plane.r, 1, << >>)} |->
  Only([origin \in {planeProjection(loop.h, ZERO, plane.r)} |->
  [h |-> origin.h, r |-> [strokes |-> loop.r, arc |-> origin.r]]])])])])

----------------
(* The caller.  The UI layer owns the coordinate system, a cuboid, two     *)
(* vectors and a rotation; it calls the functions above on them.  The heap *)
(* variable holds exactly the caller's objects (and ZERO); the objects a   *)
(* call allocates are reachable only through its result, kept in ret.      *)

VARIABLES
  heap,     \* the objects: ZERO, c.origin, c.basis.*, v, w, rotation.*
  cuboid,   \* <<a, b, c>>: the half-extents of the TestCuboid
  ret       \* the last call: [op, arg, val], op = "idle" between calls

vars == <<heap, cuboid, ret>>

\* the caller's CoordinateSystem, vectors and rotation basis
coor == [origin |-> 2, basis |-> [xBasis |-> 3, yBasis |-> 4, zBasis |-> 5]]
own == [v |-> 6, w |-> 7]
rotation == [xBasis |-> 8, yBasis |-> 9, zBasis |-> 10]
\* a projection plane the caller builds from its own vectors
ownPlane == [origin |-> coor.origin, xBasis |-> coor.basis.xBasis,
             yBasis |-> coor.basis.yBasis]

V3(a, b, c) == Vec(I(a), I(b), I(c))
V2(a, b) == Vec(I(a), I(b), Undef)

\* bounds of the caller's inputs
MaxCoord == 1

Coords == (-MaxCoord)..MaxCoord

Vectors == {V3(a, b, c) : a \in Coords, b \in Coords, c \in Coords}
             \cup {V2(a, b) : a \in Coords, b \in Coords}

\* second operands: 3D, 2D, with absent components, with NaN components
Deltas == { V3(1, 0, -1), V3(0, 1, 1), V2(0, 1),
            Vec(I(1), Undef, Undef), Vec(NaN, I(1), NaN) }

IdentityBasis == <<V3(1, 0, 0), V3(0, 1, 0), V3(0, 0, 1)>>

\* the basis of the demo page: orthonormal, irrational
DemoBasis == << Vec(Surd(1, 2, 2), Surd(-1, 6, 6), Surd(-1, 3, 3)),
                Vec(Surd(-1, 2, 2), Surd(-1, 6, 6), Surd(-1, 3, 3)),
                Vec(Zero, Surd(1, 3, 6), Surd(-1, 3, 3)) >>

\* <<origin, basis>>: orthonormal (irrational and the standard basis),
\* orthogonal of other lengths (two), skew but independent, dependent (one
\* with every vector orthogonal to the x axis, one with every vector
\* orthogonal to the y axis), with a zero vector
Systems ==
  { <<V3(200, 150, 0), DemoBasis>>,
    <<V3(1, -2, 0), IdentityBasis>>,
    <<V3(1, -2, 2), <<V3(1, 1, 1), V3(1, -1, 0), V3(1, 1, -2)>> >>,
    <<V3(2, -1, 1), <<V3(1, 1, 0), V3(1, -1, 0), V3(0, 0, 2)>> >>,
    <<V3(2, 0, -1), <<V3(1, 1, 0), V3(0, 1, 1), V3(0, 0, 1)>> >>,
    <<V3(1, 1, 1), <<V3(0, 1, 0), V3(0, 0, 1), V3(0, 1, 1)>> >>,
    <<V3(1, 1, 0), <<V3(1, 0, 0), V3(0, 0, 1), V3(1, 0, 1)>> >>,
    <<V3(1, 2, 2), <<V3(1, 0, 0), V3(0, 0, 0), V3(0, 0, 1)>> >> }

\* rotations: the identity, a quarter turn about z, a shear
Rotations ==
  { IdentityBasis,
    <<V3(0, 1, 0), V3(-1, 0, 0), V3(0, 0, 1)>>,
    <<V3(1, 1, 0), V3(0, 1, 0), V3(0, 0, 1)>> }

Cuboids == { <<I(50), I(100), I(100)>>, <<I(1), I(2), I(3)>>, <<I(1), I(1), I(1)>> }

Coefficients == { I(-1), I(0), I(2) }

DefaultV == V3(1, 0, -1)
DefaultW == V3(0, 1, 1)
DefaultSystems == { sy \in Systems : sy[2] = IdentityBasis \/ sy[1] = V3(1, -2, 2) }
DefaultCuboid == <<I(50), I(100), I(100)>>

Idle == [op |-> "idle", arg |-> << >>, val |-> << >>]

MakeHeap(sy, v, w, rot) ==
  <<ZEROValue, sy[1], sy[2][1], sy[2][2], sy[2][3], v, w, rot[1], rot[2], rot[3]>>

Matrix(b) == [i \in 1..3 |-> <<b[i].x, b[i].y, b[i].z>>]

\* the matrices the caller converts to bases
Matrices == {Matrix(b) : b \in Rotations \cup {DemoBasis}}

\* either the vectors range widely under a plain camera, or the camera, the
\* rotation and the cuboid range under fixed vectors
Init ==
  /\ \E sy \in Systems, v \in Vectors, w \in Deltas, rot \in Rotations, cb \in Cuboids :
       /\ \/ sy \in DefaultSystems /\ rot = IdentityBasis /\ cb = DefaultCuboid
          \/ v \in {DefaultV, V2(0, 0)} /\ w = DefaultW
       /\ heap = MakeHeap(sy, v, w, rot)
       /\ cuboid = cb
  /\ ret = Idle

\* what the caller still holds of the heap after a call
Kept(h) == SubSeq(h, 1, Len(heap))

\* a vector as the caller sees it: the object (its reference tells whether
\* it is one of the caller's or a new one) and its value
Snap(h, r) == [ref |-> r, val |-> h[r]]

SnapBasis(h, b) ==
  [xBasis |-> Snap(h, b.xBasis), yBasis |-> Snap(h, b.yBasis), zBasis |-> Snap(h, b.zBasis)]

SnapSystem(h, c) == [origin |-> Snap(h, c.origin), basis |-> SnapBasis(h, c.basis)]

SnapPlane(h, p) ==
  [origin |-> Snap(h, p.origin), xBasis |-> Snap(h, p.xBasis), yBasis |-> Snap(h, p.yBasis)]

SnapLine(h, l) ==
  [start |-> Snap(h, l.start), end |-> Snap(h, l.end), style |-> l.style]

SnapLines(h, ls) == [i \in 1..Len(ls) |-> SnapLine(h, ls[i])]

IsBoxed(n) == n = Undef \/ n \in {I(i) : i \in Coords}
InBox(vec) == IsBoxed(vec.x) /\ IsBoxed(vec.y) /\ IsBoxed(vec.z)

\* a call (made when the caller holds no pending result): arg is what the
\* caller passed, as it was before the call, val is what the call returned,
\* and the caller's objects are as the call left them
Call(op, arg, h, val) ==
  /\ heap' = Kept(h)
  /\ ret' = [op |-> op, arg |-> arg, val |-> val]
  /\ UNCHANGED cuboid

\* (a result is bound by \E res \in {call} so that the call is evaluated once)
\* ---- the in-place operations
CallMultiplyOn ==
  /\ ret.op = "idle"
  /\ \E k \in Coefficients :
       \E res \in {multiplyOn(heap, own.v, k)} :
          /\ InBox(res.h[own.v])
          /\ Call("multiplyOn", <<Snap(heap, own.v), k>>, res.h, Snap(res.h, res.r))

CallAddOn ==
  /\ ret.op = "idle"
  /\ \E res \in {addOn(heap, own.v, own.w)} :
        /\ InBox(res.h[own.v])
        /\ Call("addOn", <<Snap(heap, own.v), Snap(heap, own.w)>>, res.h, Snap(res.h, res.r))

CallSubstractOn ==
  /\ ret.op = "idle"
  /\ \E res \in {substractOn(heap, own.v, own.w)} :
        /\ InBox(res.h[own.v])
        /\ Call("substractOn", <<Snap(heap, own.v), Snap(heap, own.w)>>, res.h,
                Snap(res.h, res.r))

\* ---- the functions that return numbers
CallDotOf ==
  /\ ret.op = "idle"
  /\ Call("dotOf", <<Snap(heap, own.v), Snap(heap, own.w)>>, heap,
          dotOf(heap, own.v, own.w))

\* the caller's v is the axis
CallDecomposeOnAxis ==
  /\ ret.op = "idle"
  /\ Call("decomposeOnAxis", <<Snap(heap, own.w), Snap(heap, own.v)>>, heap,
          decomposeOnAxis(heap, own.w, own.v))

CallProjection ==
  /\ ret.op = "idle"
  /\ Call("projection", <<Snap(heap, own.w), Snap(heap, own.v)>>, heap,
          projection(heap, own.w, own.v))

\* ---- the functions that return new values
CallUnitization ==
  /\ ret.op = "idle"
  /\ \E res \in {unitization(heap, own.v)} :
        Call("unitization", <<Snap(heap, own.v)>>, res.h, Snap(res.h, res.r))

CallDecomposition ==
  /\ ret.op = "idle"
  /\ \E res \in {decomposition(heap, own.v, coor.basis)} :
        Call("decomposition", <<Snap(heap, own.v), SnapBasis(heap, coor.basis)>>, res.h,
             Snap(res.h, res.r))

CallRepresentationOf ==
  /\ ret.op = "idle"
  /\ \E res \in {representationOf(heap, own.v, coor.basis)} :
        Call("representationOf", <<Snap(heap, own.v), SnapBasis(heap, coor.basis)>>, res.h,
             Snap(res.h, res.r))

CallCrossProductOf ==
  /\ ret.op = "idle"
  /\ \E res \in {crossProductOf(heap, own.v, own.w)} :
        Call("crossProductOf", <<Snap(heap, own.v), Snap(heap, own.w)>>, res.h,
             Snap(res.h, res.r))

CallMatrixOfBasis3D ==
  /\ ret.op = "idle"
  /\ \E b \in {coor.basis, rotation} :
        Call("matrixOfBasis3D", <<SnapBasis(heap, b)>>, heap, matrixOfBasis3D(heap, b))

CallBasis3DFromMatrix ==
  /\ ret.op = "idle"
  /\ \E m \in Matrices :
       \E res \in {basis3DFromMatrix(heap, m)} :
          Call("basis3DFromMatrix", <<m>>, res.h, SnapBasis(res.h, res.r))

CallRotateBasis3D ==
  /\ ret.op = "idle"
  /\ \E res \in {rotateBasis3D(heap, coor.basis, rotation)} :
        Call("rotateBasis3D", <<SnapBasis(heap, coor.basis), SnapBasis(heap, rotation)>>,
             res.h, SnapBasis(res.h, res.r))

CallVisualPlaneOf ==
  /\ ret.op = "idle"
  /\ \E res \in {visualPlaneOf(heap, coor)} :
        Call("visualPlaneOf", <<SnapSystem(heap, coor)>>, res.h, SnapPlane(res.h, res.r))

\* the point is the caller's v or the origin of the plane
CallPlaneProjection ==
  /\ ret.op = "idle"
  /\ \E point \in {own.v, ownPlane.origin} :
       \E res \in {planeProjection(heap, point, ownPlane)} :
         Call("planeProjection", <<Snap(heap, point), SnapPlane(heap, ownPlane)>>, res.h,
              Snap(res.h, res.r))

CallProjectLine ==
  /\ ret.op = "idle"
  /\ \E style \in {NoStyle, "red"} :
       \E res \in {projectLine(heap, Edge(own.v, own.w, style), ownPlane)} :
         Call("projectLine",
              <<SnapLine(heap, Edge(own.v, own.w, style)), SnapPlane(heap, ownPlane)>>,
              res.h, SnapLine(res.h, res.r))

CallScreenPositionOf ==
  /\ ret.op = "idle"
  /\ \E res \in {screenPositionOf(heap, coor, own.v)} :
        Call("screenPositionOf", <<SnapSystem(heap, coor), Snap(heap, own.v)>>, res.h,
             Snap(res.h, res.r))

CallLines ==
  /\ ret.op = "idle"
  /\ \E res \in {lines(heap, cuboid[1], cuboid[2], cuboid[3])} :
        Call("lines", cuboid, res.h, SnapLines(res.h, res.r))

CallLinesGetter ==
  /\ ret.op = "idle"
  /\ \E res \in {linesGetter(heap, cuboid[1], cuboid[2], cuboid[3])} :
        Call("linesGetter", cuboid, res.h, SnapLines(res.h, res.r))

CallDraw ==
  /\ ret.op = "idle"
  /\ \E res \in {draw(heap, coor, cuboid[1], cuboid[2], cuboid[3])} :
        Call("draw", <<SnapSystem(heap, coor), cuboid>>, res.h,
             [strokes |-> [i \in 1..Len(res.r.strokes) |->
                             [line |-> SnapLine(res.h, res.r.strokes[i].line),
                              style |-> res.r.strokes[i].style]],
              arc |-> Snap(res.h, res.r.arc)])

\* ---- the caller between calls
\* the caller drops the result
Return ==
  /\ ret.op # "idle"
  /\ ret' = Idle
  /\ UNCHANGED <<heap, cuboid>>

Next ==
  \/ CallMultiplyOn
  \/ CallAddOn
  \/ CallSubstractOn
  \/ CallDotOf
  \/ CallDecomposeOnAxis
  \/ CallProjection
  \/ CallUnitization
  \/ CallDecomposition
  \/ CallRepresentationOf
  \/ CallCrossProductOf
  \/ CallMatrixOfBasis3D
  \/ CallBasis3DFromMatrix
  \/ CallRotateBasis3D
  \/ CallVisualPlaneOf
  \/ CallPlaneProjection
  \/ CallProjectLine
  \/ CallScreenPositionOf
  \/ CallLines
  \/ CallLinesGetter
  \/ CallDraw
  \/ Return

Spec == Init /\ [][Next]_vars

----------------------------------------------------------------------------
(* The camera over successive frames.  On the first page the basis of the  *)
(* coordinate system is replaced again and again by                        *)
(* rotateBasis3D(basis, rotation), either with a rotation given as input   *)
(* or by the page's mousemove handler, which builds its rotation from the  *)
(* pointer position.  On the second page the mousemove handler replaces    *)
(* the basis by one built on the ray through the pointer.  Here ret        *)
(* records the session: op is "frames" on the first page and "rays" on the *)
(* second, arg is the basis at the start and the rotations (the pointer    *)
(* positions) applied so far, val the basis now.  The cuboid is the one    *)
(* the page draws.                                                         *)

\* bound of the number of updates
MaxFrames == 3

\* a rotation about z by the angle of the 3-4-5 triangle
RationalTurn == << Vec(Q(3, 5), Q(4, 5), Zero), Vec(Q(-4, 5), Q(3, 5), Zero),
                   V3(0, 0, 1) >>

\* the bases a session starts from: orthonormal (the standard basis, the
\* demo page's, a rational one) and orthogonal but not of unit length
FrameBases ==
  { IdentityBasis, DemoBasis,
    << Vec(Q(2, 3), Q(2, 3), Q(1, 3)), Vec(Q(-2, 3), Q(1, 3), Q(2, 3)),
       Vec(Q(1, 3), Q(-2, 3), Q(2, 3)) >>,
    <<V3(1, 1, 0), V3(1, -1, 0), V3(0, 0, 2)>> }

\* the rotations given as input: quarter turns about z and about x, a
\* rational turn, the demo basis (all orthonormal)
FrameRotations ==
  { <<V3(0, 1, 0), V3(-1, 0, 0), V3(0, 0, 1)>>,
    <<V3(1, 0, 0), V3(0, 0, 1), V3(0, -1, 0)>>,
    RationalTurn,
    DemoBasis }

\* e.offsetX of the mousemove events (the canvas is 400 wide)
OffsetXs == {0, 100, 200}

\* stdBasis of the second page: orthonormal, irrational
StdBasis == << Vec(Surd(1, 2, 2), Surd(1, 6, 6), Surd(1, 3, 3)),
               Vec(Surd(-1, 2, 2), Surd(1, 6, 6), Surd(1, 3, 3)),
               Vec(Zero, Surd(-1, 3, 6), Surd(1, 3, 3)) >>

\* the object stdBasis of the second page (the page has no rotation object)
stdBasis == rotation

\* the cuboid the second page draws
RayCuboid == <<I(50), I(50), I(50)>>

\* <<e.offsetX, e.offsetY>> of the mousemove events of the second page: the
\* pointer over the projection of the origin.  (At any other position the
\* length of crossProductOf(stdBasis.xBasis, xRay) is the square root of a
\* sum of radicals, which the numbers above do not represent.)
Positions == { <<200, 150>> }

InitFrames ==
  /\ \/ /\ \E b \in FrameBases :
             heap = MakeHeap(<<V3(200, 150, 0), b>>, DefaultV, DefaultW, IdentityBasis)
        /\ cuboid = DefaultCuboid
     \/ /\ heap = MakeHeap(<<V3(200, 150, -100), StdBasis>>, DefaultV, DefaultW, StdBasis)
        /\ cuboid = RayCuboid
  /\ ret = [op |-> IF cuboid = RayCuboid THEN "rays" ELSE "frames",
            arg |-> <<SnapBasis(heap, coor.basis), << >> >>,
            val |-> SnapBasis(heap, coor.basis)]

\* coordinateSystem.basis = b, a basis of the heap h, after the rotation (the
\* pointer position) r; the objects of the call are dropped
Assign(h, b, r) ==
  /\ heap' = [Kept(h) EXCEPT ![coor.basis.xBasis] = h[b.xBasis],
                             ![coor.basis.yBasis] = h[b.yBasis],
                             ![coor.basis.zBasis] = h[b.zBasis]]
  /\ ret' = [op |-> ret.op,
             arg |-> <<ret.arg[1], Append(ret.arg[2], r)>>,
             val |-> SnapBasis(heap', coor.basis)]
  /\ UNCHANGED cuboid

\* basis = rotateBasis3D(basis, rotation) with the rotation r given as input
\* (the caller's rotation objects take the values r)
RotateBy ==
  /\ cuboid = DefaultCuboid
  /\ Len(ret.arg[2]) < MaxFrames
  /\ \E r \in FrameRotations :
       \E res \in {rotateBasis3D([heap EXCEPT ![rotation.xBasis] = r[1],
                                               ![rotation.yBasis] = r[2],
                                               ![rotation.zBasis] = r[3]],
                                  coor.basis, rotation)} :
          Assign(res.h, res.r, r)

\* the rotation literal of the mousemove handler for e.offsetX = x:
\* { xBasis: unitization(Point(x * 0.01, 1, 0)),
\*   yBasis: unitization(Point(0, -x * 0.01, 1)),
\*   zBasis: unitization(Point(100 / x, -1, -x * 0.01)) }
RotationOfEvent(h, x) ==
  Only([px \in {Point(h, MulNum(x, Q(1, 100)), I(1), Zero)} |->
  Only([ux \in {unitization(px.h, px.r)} |->
  Only([py \in {Point(ux.h, Zero, MulNum(NegNum(x), Q(1, 100)), I(1))} |->
  Only([uy \in {unitization(py.h, py.r)} |->
  Only([pz \in {Point(uy.h, DivNum(I(100), x), I(-1),
                      MulNum(NegNum(x), Q(1, 100)))} |->
  Only([uz \in {unitization(pz.h, pz.r)} |->
  [h |-> uz.h, r |-> [xBasis |-> ux.r, yBasis |-> uy.r, zBasis |-> uz.r]]])])])])])])

\* the mousemove handler of the first page:
\* coordinateSystem.basis = rotateBasis3D(coordinateSystem.basis, rotation),
\* rotation built from e.offsetX.  (clear() and draw() act on the canvas,
\* which is not part of the state; draw changes no object.)
Mousemove ==
  /\ cuboid = DefaultCuboid
  /\ Len(ret.arg[2]) < MaxFrames
  /\ \E offsetX \in OffsetXs :
       \E rot \in {RotationOfEvent(heap, I(offsetX))} :
         \E res \in {rotateBasis3D(rot.h, coor.basis, rot.r)} :
           Assign(res.h, res.r,
                  <<rot.h[rot.r.xBasis], rot.h[rot.r.yBasis], rot.h[rot.r.zBasis]>>)

\* the basis of the second page's handler for the pointer at <<x, y>>:
\* ray = screenPositionOf({origin, basis: stdBasis}, {x, y}),
\* xRay = representationOf(unitization(ray), stdBasis),
\* yRay = unitization(crossProductOf(stdBasis.xBasis, xRay)),
\* zRay = unitization(crossProductOf(yRay, xRay))
BasisOfRay(h, x, y) ==
  Only([position \in {Alloc(h, Vec(x, y, Undef))} |->
  Only([ray \in {screenPositionOf(position.h,
                                  [origin |-> coor.origin, basis |-> stdBasis],
                                  position.r)} |->
  Only([unit \in {unitization(ray.h, ray.r)} |->
  Only([xRay \in {representationOf(unit.h, unit.r, stdBasis)} |->
  Only([yCross \in {crossProductOf(xRay.h, stdBasis.xBasis, xRay.r)} |->
  Only([yRay \in {unitization(yCross.h, yCross.r)} |->
  Only([zCross \in {crossProductOf(yRay.h, yRay.r, xRay.r)} |->
  Only([zRay \in {unitization(zCross.h, zCross.r)} |->
  [h |-> zRay.h,
   r |-> [xBasis |-> xRay.r, yBasis |-> yRay.r, zBasis |-> zRay.r]]])])])])])])])])

\* the mousemove handler of the second page:
\* coordinateSystem.basis = {xBasis: xRay, yBasis: yRay, zBasis: zRay}.
\* (The texts of #message and #position, clear() and draw() act on the
\* document only.)
MousemoveToRay ==
  /\ cuboid = RayCuboid
  /\ Len(ret.arg[2]) < MaxFrames
  /\ \E position \in Positions :
       \E res \in {BasisOfRay(heap, I(position[1]), I(position[2]))} :
         Assign(res.h, res.r, position)

NextFrames ==
  \/ RotateBy
  \/ Mousemove
  \/ MousemoveToRay

SpecFrames == InitFrames /\ [][NextFrames]_vars

----------------------------------------------------------------------------
(* Properties.  In a state with ret.op = f the call f has just returned:   *)
(* ret.arg holds its arguments as they were before the call, ret.val its   *)
(* result, heap the caller's objects as the call left them.                *)

Is3DValue(vec) == vec.z # Undef

IsFiniteValue(vec) ==
  IsFinite(vec.x) /\ IsFinite(vec.y) /\ (Is3DValue(vec) => IsFinite(vec.z))

\* the three vectors of a basis argument
Values(b) == <<b.xBasis.val, b.yBasis.val, b.zBasis.val>>

Dot(a, b) == AddNum(AddNum(MulNum(a.x, b.x), MulNum(a.y, b.y)), MulNum(a.z, b.z))

IsFiniteBasis(B) == \A i \in 1..3 : Is3DValue(B[i]) /\ IsFiniteValue(B[i])

\* nonzero and mutually orthogonal
IsOrthogonal(B) ==
  /\ IsFiniteBasis(B)
  /\ \A i \in 1..3 : Dot(B[i], B[i]) # Zero
  /\ \A i, j \in 1..3 : i < j => Dot(B[i], B[j]) = Zero

Determinant(B) ==
  AddNum(AddNum(MulNum(B[1].x, SubNum(MulNum(B[2].y, B[3].z), MulNum(B[2].z, B[3].y))),
                MulNum(B[1].y, SubNum(MulNum(B[2].z, B[3].x), MulNum(B[2].x, B[3].z)))),
         MulNum(B[1].z, SubNum(MulNum(B[2].x, B[3].y), MulNum(B[2].y, B[3].x))))

IsIndependent(B) == IsFiniteBasis(B) /\ Determinant(B) # Zero

\* a heap of ZERO and the given vectors: vector i is object i + 1
HeapOf(values) == <<ZEROValue>> \o values

BasisAt(first) == [xBasis |-> first, yBasis |-> first + 1, zBasis |-> first + 2]

\* the value of a call's result
ValueOf(res) == res.h[res.r]

----------------------------------------------------------------------------
\* C1: for a 3D vector v and a basis B of three nonzero, mutually orthogonal
\* vectors (of any length), representationOf(decomposition(v, B), B) equals v
\* in x, y and z (in exact arithmetic).
C1_RoundTrip ==
  (/\ ret.op = "decomposition"
   /\ Is3DValue(ret.arg[1].val) /\ IsFiniteValue(ret.arg[1].val)
   /\ IsOrthogonal(Values(ret.arg[2])))
  => ValueOf(representationOf(HeapOf(Values(ret.arg[2]) \o <<ret.val.val>>), 5,
                              BasisAt(2)))
       = ret.arg[1].val

\* a vector with a z part decomposed on an orthogonal basis that is not
\* orthonormal, and represented back
C1_Witness ==
  /\ ret.op = "decomposition"
  /\ IsOrthogonal(Values(ret.arg[2]))
  /\ \A i \in 1..3 : Dot(Values(ret.arg[2])[i], Values(ret.arg[2])[i]) # I(1)
  /\ Is3DValue(ret.arg[1].val)
  /\ ret.arg[1].val.z # Zero
  /\ ret.val.val.z \notin {Zero, ret.arg[1].val.z}
  /\ ValueOf(representationOf(HeapOf(Values(ret.arg[2]) \o <<ret.val.val>>), 5,
                              BasisAt(2)))
       = ret.arg[1].val

----------------------------------------------------------------------------
\* the planeProjection of a point onto a plane, both given by value
ProjectionOf(point, plane) ==
  ValueOf(planeProjection(
            HeapOf(<<plane.origin.val, plane.xBasis.val, plane.yBasis.val, point>>),
            5, [origin |-> 2, xBasis |-> 3, yBasis |-> 4]))

\* C2 as claimed: projectLine(line, plane) has start and end the
\* planeProjection of line.start and line.end, and its style is line.style
\* for every line, styled or not.
C2_StylePassesThrough ==
  ret.op = "projectLine" =>
    /\ ret.val.start.val = ProjectionOf(ret.arg[1].start.val, ret.arg[2])
    /\ ret.val.end.val = ProjectionOf(ret.arg[1].end.val, ret.arg[2])
    /\ ret.val.style = ret.arg[1].style

\* C2 as amended: projectLine(line, plane) has start and end the
\* planeProjection of line.start and line.end, two new 2D vectors, and has no
\* style, whether the line has one or not.
C2_ProjectsEndpoints ==
  ret.op = "projectLine" =>
    /\ ret.val.start.val = ProjectionOf(ret.arg[1].start.val, ret.arg[2])
    /\ ret.val.end.val = ProjectionOf(ret.arg[1].end.val, ret.arg[2])
    /\ ~Is3DValue(ret.val.start.val) /\ ~Is3DValue(ret.val.end.val)
    /\ ret.val.start.ref > Len(heap) /\ ret.val.end.ref > Len(heap)
    /\ ret.val.start.ref # ret.val.end.ref
    /\ ret.val.style = NoStyle

\* a styled line with different finite projections of its two ends
C2_Witness ==
  /\ ret.op = "projectLine"
  /\ ret.arg[1].style = "red"
  /\ ret.val.style = NoStyle
  /\ IsFiniteValue(ret.val.start.val) /\ IsFiniteValue(ret.val.end.val)
  /\ ret.val.start.val # ret.val.end.val
  /\ ret.val.end.val = ProjectionOf(ret.arg[1].end.val, ret.arg[2])

----------------------------------------------------------------------------
\* the origin of visualPlaneOf of a coordinate system given by value
PlaneOriginOf(c) ==
  Only([plane \in {visualPlaneOf(HeapOf(<<c.origin.val>> \o Values(c.basis)),
                                 [origin |-> 2, basis |-> BasisAt(3)])} |->
  plane.h[plane.r.origin]])

\* C3: for a coordinate system c with linearly independent basis vectors,
\* screenPositionOf(c, {x: 0, y: 0}) is a 3D vector equal in x, y and z to
\* visualPlaneOf(c).origin.
C3_ScreenOrigin ==
  (/\ ret.op = "screenPositionOf"
   /\ ret.arg[2].val.x = Zero /\ ret.arg[2].val.y = Zero
   /\ IsFiniteValue(ret.arg[1].origin.val)
   /\ IsIndependent(Values(ret.arg[1].basis)))
  => /\ Is3DValue(ret.val.val)
     /\ ret.val.val = PlaneOriginOf(ret.arg[1])

\* the screen origin under a basis that is independent but not orthogonal
C3_Witness ==
  /\ ret.op = "screenPositionOf"
  /\ ret.arg[2].val.x = Zero /\ ret.arg[2].val.y = Zero
  /\ IsIndependent(Values(ret.arg[1].basis))
  /\ ~IsOrthogonal(Values(ret.arg[1].basis))
  /\ ret.val.val = PlaneOriginOf(ret.arg[1])
  /\ IsFiniteValue(ret.val.val)
  /\ ret.val.val # ZEROValue

----------------------------------------------------------------------------
\* C4: matrixOfBasis3D(basis3DFromMatrix(m)) = m entry by entry for a 3x3
\* matrix m of numbers, row i of matrixOfBasis3D(b) is the i-th vector of b as
\* <<x, y, z>>, and basis3DFromMatrix(matrixOfBasis3D(b)) = b for a 3D basis b.
C4_MatrixRoundTrip ==
  /\ ret.op = "basis3DFromMatrix" =>
       matrixOfBasis3D(HeapOf(Values(ret.val)), BasisAt(2)) = ret.arg[1]
  /\ (ret.op = "matrixOfBasis3D" /\ IsFiniteBasis(Values(ret.arg[1]))) =>
       /\ \A i \in 1..3 :
            ret.val[i] = << Values(ret.arg[1])[i].x, Values(ret.arg[1])[i].y,
                            Values(ret.arg[1])[i].z >>
       /\ Only([b \in {basis3DFromMatrix(<<ZEROValue>>, ret.val)} |->
            <<b.h[b.r.xBasis], b.h[b.r.yBasis], b.h[b.r.zBasis]>>])
          = Values(ret.arg[1])

\* a matrix that is not symmetric converted to a basis and back
C4_Witness ==
  /\ ret.op = "basis3DFromMatrix"
  /\ ret.arg[1][1][2] # ret.arg[1][2][1]
  /\ ret.val.yBasis.val.x = ret.arg[1][2][1]
  /\ matrixOfBasis3D(HeapOf(Values(ret.val)), BasisAt(2)) = ret.arg[1]

----------------------------------------------------------------------------
\* entry j of a vector as a matrix row
Entry(vec, j) == IF j = 1 THEN vec.x ELSE IF j = 2 THEN vec.y ELSE vec.z

\* entry (i, j) of the matrix product of the rows B by the rows R
ProductEntry(B, R, i, j) ==
  AddNum(AddNum(MulNum(B[i].x, Entry(R[1], j)), MulNum(B[i].y, Entry(R[2], j))),
         MulNum(B[i].z, Entry(R[3], j)))

\* C5: rotateBasis3D(B, I) = B for the standard basis I, and in general the
\* i-th vector of rotateBasis3D(B, R) is the i-th row of
\* matrixOfBasis3D(B) x matrixOfBasis3D(R), in that order (finite B and R).
C5_RotateIsProduct ==
  (/\ ret.op = "rotateBasis3D"
   /\ IsFiniteBasis(Values(ret.arg[1])) /\ IsFiniteBasis(Values(ret.arg[2])))
  => /\ Values(ret.arg[2]) = IdentityBasis => Values(ret.val) = Values(ret.arg[1])
     /\ \A i \in 1..3 :
          Values(ret.val)[i] =
            Vec(ProductEntry(Values(ret.arg[1]), Values(ret.arg[2]), i, 1),
                ProductEntry(Values(ret.arg[1]), Values(ret.arg[2]), i, 2),
                ProductEntry(Values(ret.arg[1]), Values(ret.arg[2]), i, 3))

\* a basis rotated by a rotation it does not commute with
C5_Witness ==
  /\ ret.op = "rotateBasis3D"
  /\ Values(ret.arg[2]) # IdentityBasis
  /\ Values(ret.arg[1]) # IdentityBasis
  /\ Values(ret.val) # Values(ret.arg[1])
  /\ \E i \in 1..3 :
       Values(ret.val)[i] #
         Vec(ProductEntry(Values(ret.arg[2]), Values(ret.arg[1]), i, 1),
             ProductEntry(Values(ret.arg[2]), Values(ret.arg[1]), i, 2),
             ProductEntry(Values(ret.arg[2]), Values(ret.arg[1]), i, 3))

----------------------------------------------------------------------------
\* dotOf of two vectors given by value
DotOfValues(a, b) == dotOf(HeapOf(<<a, b>>), 2, 3)

\* C6: for 3D vectors a and b of integer components, crossProductOf(a, b) is
\* a new 3D vector c = (a.y*b.z - b.y*a.z, a.z*b.x - a.x*b.z,
\* a.x*b.y - a.y*b.x) with dotOf(c, a) = 0 and dotOf(c, b) = 0.
C6_CrossProduct ==
  (/\ ret.op = "crossProductOf"
   /\ Is3DValue(ret.arg[1].val) /\ IsFiniteValue(ret.arg[1].val)
   /\ Is3DValue(ret.arg[2].val) /\ IsFiniteValue(ret.arg[2].val))
  => /\ ret.val.ref > Len(heap)
     /\ Is3DValue(ret.val.val)
     /\ ret.val.val.x = SubNum(MulNum(ret.arg[1].val.y, ret.arg[2].val.z),
                               MulNum(ret.arg[2].val.y, ret.arg[1].val.z))
     /\ ret.val.val.y = SubNum(MulNum(ret.arg[1].val.z, ret.arg[2].val.x),
                               MulNum(ret.arg[1].val.x, ret.arg[2].val.z))
     /\ ret.val.val.z = SubNum(MulNum(ret.arg[1].val.x, ret.arg[2].val.y),
                               MulNum(ret.arg[1].val.y, ret.arg[2].val.x))
     /\ DotOfValues(ret.val.val, ret.arg[1].val) = Zero
     /\ DotOfValues(ret.val.val, ret.arg[2].val) = Zero

\* a cross product with three nonzero components
C6_Witness ==
  /\ ret.op = "crossProductOf"
  /\ Is3DValue(ret.arg[1].val) /\ Is3DValue(ret.arg[2].val)
  /\ IsFiniteValue(ret.val.val)
  /\ ret.val.val.x # Zero /\ ret.val.val.y # Zero /\ ret.val.val.z # Zero
  /\ DotOfValues(ret.val.val, ret.arg[1].val) = Zero
  /\ DotOfValues(ret.val.val, ret.arg[2].val) = Zero

----------------------------------------------------------------------------
\* the functions that return new values, and the in-place operations
NonMutating ==
  { "visualPlaneOf", "planeProjection", "projectLine", "screenPositionOf",
    "decomposition", "representationOf", "rotateBasis3D", "lines",
    "linesGetter", "draw", "crossProductOf", "matrixOfBasis3D",
    "basis3DFromMatrix", "dotOf", "decomposeOnAxis", "projection",
    "unitization" }

InPlace == { "multiplyOn", "addOn", "substractOn" }

\* C7: a call of visualPlaneOf, planeProjection, projectLine,
\* screenPositionOf, decomposition, representationOf, rotateBasis3D or
\* TestCuboid.lines leaves every object of the caller (the coordinate system,
\* every argument) and ZERO as they were; multiplyOn, addOn and substractOn
\* change at most the vector passed first.
C7_Frame ==
  [][ (ret.op = "idle" /\ ret'.op # "idle") =>
        /\ ret'.op \in NonMutating \cup InPlace
        /\ ret'.op \in NonMutating => heap' = heap
        /\ ret'.op \in InPlace =>
             /\ ret'.arg[1].ref = own.v
             /\ \A r \in DOMAIN heap : r # own.v => heap'[r] = heap[r] ]_vars

\* an in-place operation has changed its first argument and nothing else the
\* caller passed
C7_Witness ==
  /\ ret.op = "substractOn"
  /\ heap[own.v] # ret.arg[1].val
  /\ heap[own.v] = ret.val.val
  /\ heap[own.w] = ret.arg[2].val
  /\ heap[ZERO] = ZEROValue

----------------------------------------------------------------------------
\* the eight corners (+-a, +-b, +-c)
CornersOfBox(cb) ==
  { Vec(x, y, z) : x \in {cb[1], NegNum(cb[1])}, y \in {cb[2], NegNum(cb[2])},
                   z \in {cb[3], NegNum(cb[3])} }

DifferInOne(p, q) == Cardinality({f \in {"x", "y", "z"} : p[f] # q[f]}) = 1

EndsOf(segment) == {segment.start.val, segment.end.val}

\* es are the 12 edges of the box cb: each joins two corners that differ in
\* one coordinate, none appears twice, every corner ends three of them
IsBoxEdges(es, cb) ==
  /\ Len(es) = 12
  /\ Cardinality(CornersOfBox(cb)) = 8
  /\ \A i \in 1..Len(es) :
       /\ EndsOf(es[i]) \subseteq CornersOfBox(cb)
       /\ DifferInOne(es[i].start.val, es[i].end.val)
  /\ \A i, j \in 1..Len(es) : i < j => EndsOf(es[i]) # EndsOf(es[j])
  /\ \A p \in CornersOfBox(cb) :
       Cardinality({i \in 1..Len(es) : p \in EndsOf(es[i])}) = 3

\* C8: for half-extents a, b, c > 0, TestCuboid.lines returns the 12 edges of
\* the box with corners (+-a, +-b, +-c) (each joins two corners differing in
\* exactly one coordinate, no edge twice, three edges at every corner); the
\* styled version returns one more segment, from the origin to (a, 0, 0), and
\* the unstyled version returns nothing more.
C8_CuboidEdges ==
  /\ ret.op = "lines" =>
       /\ Len(ret.val) = 13
       /\ IsBoxEdges(SubSeq(ret.val, 1, 12), ret.arg)
       /\ ret.val[13].start.val = ZEROValue
       /\ ret.val[13].end.val = Vec(ret.arg[1], Zero, Zero)
  /\ ret.op = "linesGetter" => IsBoxEdges(ret.val, ret.arg)

\* the styled lines of a box with three different half-extents
C8_Witness ==
  /\ ret.op = "lines"
  /\ Cardinality({ret.arg[1], ret.arg[2], ret.arg[3]}) = 3
  /\ \A i \in 1..3 : Sign(ret.arg[i]) = 1
  /\ Len(ret.val) = 13
  /\ \A i \in 1..12 : ret.val[i].style \in {"red", "green", "blue"}
  /\ IsBoxEdges(SubSeq(ret.val, 1, 12), ret.arg)

----------------------------------------------------------------------------
IsFiniteSegment(segment) ==
  /\ IsFinite(segment.start.val.x) /\ IsFinite(segment.start.val.y)
  /\ IsFinite(segment.end.val.x) /\ IsFinite(segment.end.val.y)

\* C9: under a coordinate system with linearly independent basis vectors,
\* TestCuboid.draw (visualPlaneOf, then projectLine of every segment of
\* lines) divides by no zero: every coordinate of every projected end is
\* finite, and the 12 edges of the box give 12 segments.
C9_DrawIsFinite ==
  (/\ ret.op = "draw"
   /\ IsFiniteValue(ret.arg[1].origin.val)
   /\ IsIndependent(Values(ret.arg[1].basis)))
  => /\ Len(ret.val.strokes) = 13
     /\ \A i \in 1..Len(ret.val.strokes) : IsFiniteSegment(ret.val.strokes[i].line)
     /\ Cardinality({i \in 1..12 : ~Is3DValue(ret.val.strokes[i].line.start.val)
                                     /\ ~Is3DValue(ret.val.strokes[i].line.end.val)}) = 12

\* the scenario of the demo page: origin (200, 150, 0), its irrational basis,
\* half-extents (50, 100, 100)
C9_Witness ==
  /\ ret.op = "draw"
  /\ ret.arg[1].origin.val = V3(200, 150, 0)
  /\ Values(ret.arg[1].basis) = DemoBasis
  /\ ret.arg[2] = <<I(50), I(100), I(100)>>
  /\ IsIndependent(Values(ret.arg[1].basis))
  /\ \A i \in 1..13 : IsFiniteSegment(ret.val.strokes[i].line)
  /\ \E i \in 1..12 : ret.val.strokes[i].line.start.val # ret.val.strokes[i].line.end.val

----------------------------------------------------------------------------
\* a component of delta as the claim adds it: 0 only when it is absent
Present(component) == IF component = Undef THEN Zero ELSE component

\* C10: addOn(v, delta) returns v itself, and afterwards x, y (and z when v is
\* 3D) of v are the old value plus the component of delta whenever delta has
\* it, NaN included; only an absent component counts as 0.
C10_AddOnAddsPresent ==
  ret.op = "addOn" =>
    /\ ret.val.ref = ret.arg[1].ref
    /\ heap[ret.arg[1].ref] = ret.val.val
    /\ ret.val.val.x = AddNum(ret.arg[1].val.x, Present(ret.arg[2].val.x))
    /\ ret.val.val.y = AddNum(ret.arg[1].val.y, Present(ret.arg[2].val.y))
    /\ ret.val.val.z = IF Is3DValue(ret.arg[1].val)
                       THEN AddNum(ret.arg[1].val.z, Present(ret.arg[2].val.z))
                       ELSE Undef

----------------------------------------------------------------------------
\* the zero vector, 2D or 3D
IsZeroValue(vec) == vec.x = Zero /\ vec.y = Zero /\ vec.z \in {Zero, Undef}

\* the x and y axes of visualPlaneOf of a coordinate system given by value
PlaneAxesOf(c) ==
  Only([plane \in {visualPlaneOf(HeapOf(<<c.origin.val>> \o Values(c.basis)),
                                 [origin |-> 2, basis |-> BasisAt(3)])} |->
  <<plane.h[plane.r.xBasis], plane.h[plane.r.yBasis]>>])

\* screenPositionOf(c, position) divides by a zero length: a vector of
\* c.basis is zero (in decomposeOnAxis) or an axis of the plane is zero (in
\* unitization)
IsDegenerateSystem(c) ==
  \/ \E i \in 1..3 : IsZeroValue(Values(c.basis)[i])
  \/ \E i \in 1..2 : IsZeroValue(PlaneAxesOf(c)[i])

\* C11: decomposeOnAxis(v, axis), projection(v, axis) and unitization(axis)
\* with axis the zero vector return a non-finite value (every component of
\* unitization's result is NaN), and the results of decomposition,
\* planeProjection and screenPositionOf that are computed from such a value
\* are not finite either.
C11_DegenerateStaysNonFinite ==
  /\ (ret.op \in {"decomposeOnAxis", "projection"} /\ IsZeroValue(ret.arg[2].val))
       => ~IsFinite(ret.val)
  /\ (ret.op = "unitization" /\ IsZeroValue(ret.arg[1].val))
       => /\ IsNaN(ret.val.val.x) /\ IsNaN(ret.val.val.y)
          /\ Is3DValue(ret.arg[1].val) => IsNaN(ret.val.val.z)
  /\ (/\ ret.op = "decomposition"
      /\ \/ IsZeroValue(ret.arg[2].xBasis.val)
         \/ IsZeroValue(ret.arg[2].yBasis.val)
         \/ Is3DValue(ret.arg[1].val) /\ IsZeroValue(ret.arg[2].zBasis.val))
       => ~IsFiniteValue(ret.val.val)
  /\ (/\ ret.op = "planeProjection"
      /\ IsZeroValue(ret.arg[2].xBasis.val) \/ IsZeroValue(ret.arg[2].yBasis.val))
       => ~IsFiniteValue(ret.val.val)
  /\ (ret.op = "screenPositionOf" /\ IsDegenerateSystem(ret.arg[1]))
       => ~IsFiniteValue(ret.val.val)

----------------------------------------------------------------------------
\* a.x*b.x + a.y*b.y
Dot2(a, b) == AddNum(MulNum(a.x, b.x), MulNum(a.y, b.y))

\* C12: dotOf(a, b) is a.x*b.x + a.y*b.y + a.z*b.z when a and b are both 3D
\* and a.x*b.x + a.y*b.y in every other case, so dotOf(a, b) = dotOf(b, a)
\* for every mix of dimensions; substractOn(v, d) subtracts d.z from v.z when
\* both are 3D and leaves v.z as it was otherwise.
C12_DotOfDimensions ==
  /\ ret.op = "dotOf" =>
       /\ ret.val = IF Is3DValue(ret.arg[1].val) /\ Is3DValue(ret.arg[2].val)
                    THEN AddNum(Dot2(ret.arg[1].val, ret.arg[2].val),
                                MulNum(ret.arg[1].val.z, ret.arg[2].val.z))
                    ELSE Dot2(ret.arg[1].val, ret.arg[2].val)
       /\ ret.val = DotOfValues(ret.arg[2].val, ret.arg[1].val)
  /\ ret.op = "substractOn" =>
       ret.val.val.z = IF Is3DValue(ret.arg[1].val) /\ Is3DValue(ret.arg[2].val)
                       THEN SubNum(ret.arg[1].val.z, ret.arg[2].val.z)
                       ELSE ret.arg[1].val.z

\* the dot product of a 3D vector and a 2D vector, its z part left out
C12_Witness ==
  /\ ret.op = "dotOf"
  /\ Is3DValue(ret.arg[1].val) /\ ~Is3DValue(ret.arg[2].val)
  /\ IsFiniteValue(ret.arg[1].val) /\ IsFiniteValue(ret.arg[2].val)
  /\ ret.arg[1].val.z # Zero
  /\ IsFinite(ret.val) /\ ret.val # Zero
  /\ ret.val = Dot2(ret.arg[1].val, ret.arg[2].val)
  /\ ret.val = DotOfValues(ret.arg[2].val, ret.arg[1].val)

----------------------------------------------------------------------------
\* pairwise orthogonal vectors of length 1
IsOrthonormal(B) ==
  /\ IsFiniteBasis(B)
  /\ \A i \in 1..3 : Dot(B[i], B[i]) = I(1)
  /\ \A i, j \in 1..3 : i < j => Dot(B[i], B[j]) = Zero

\* row i, and the rows, of the matrix product of the rows B by the rows R
ProductRow(B, R, i) ==
  Vec(ProductEntry(B, R, i, 1), ProductEntry(B, R, i, 2), ProductEntry(B, R, i, 3))

ProductOf(B, R) == <<ProductRow(B, R, 1), ProductRow(B, R, 2), ProductRow(B, R, 3)>>

RECURSIVE ProductFromRight(_)
\* R_1 x (R_2 x (... x R_n)), n >= 1
ProductFromRight(Rs) ==
  IF Len(Rs) = 1 THEN Rs[1] ELSE ProductOf(Rs[1], ProductFromRight(Tail(Rs)))

RECURSIVE ProductFromLeft(_)
\* ((R_1 x R_2) x ...) x R_n, n >= 1
ProductFromLeft(Rs) ==
  IF Len(Rs) = 1 THEN Rs[1]
  ELSE ProductOf(ProductFromLeft(SubSeq(Rs, 1, Len(Rs) - 1)), Rs[Len(Rs)])

\* C13: after every update of a session that starts from an orthonormal basis
\* B0 and whose rotations R_1 .. R_n are all orthonormal, the basis is
\* orthonormal and equals B0 x (R_1 x ... x R_n), the product of the
\* rotations grouped from the right or from the left (in exact arithmetic).
C13_FramesStayOrthonormal ==
  (/\ ret.op = "frames"
   /\ IsOrthonormal(Values(ret.arg[1]))
   /\ \A i \in 1..Len(ret.arg[2]) : IsOrthonormal(ret.arg[2][i]))
  => /\ IsOrthonormal(Values(ret.val))
     /\ Values(ret.val) = <<heap[coor.basis.xBasis], heap[coor.basis.yBasis],
                            heap[coor.basis.zBasis]>>
     /\ Len(ret.arg[2]) > 0 =>
          /\ Values(ret.val) = ProductOf(Values(ret.arg[1]), ProductFromRight(ret.arg[2]))
          /\ Values(ret.val) = ProductOf(Values(ret.arg[1]), ProductFromLeft(ret.arg[2]))

\* three updates with rotations that do not commute, from an orthonormal
\* basis other than the standard one
C13_Witness ==
  /\ ret.op = "frames"
  /\ Len(ret.arg[2]) = 3
  /\ IsOrthonormal(Values(ret.arg[1]))
  /\ Values(ret.arg[1]) # IdentityBasis
  /\ \A i \in 1..3 : IsOrthonormal(ret.arg[2][i])
  /\ ProductOf(ret.arg[2][1], ret.arg[2][2]) # ProductOf(ret.arg[2][2], ret.arg[2][1])
  /\ ProductOf(ret.arg[2][2], ret.arg[2][3]) # ProductOf(ret.arg[2][3], ret.arg[2][2])
  /\ IsOrthonormal(Values(ret.val))
  /\ Values(ret.val) # Values(ret.arg[1])
  /\ Values(ret.val) = ProductOf(Values(ret.arg[1]), ProductFromRight(ret.arg[2]))

----------------------------------------------------------------------------
\* the offsets of the translation
Offsets == {vec \in Vectors : Is3DValue(vec)}

\* a + d, component by component
Shifted(a, d) == Vec(AddNum(a.x, d.x), AddNum(a.y, d.y), AddNum(a.z, d.z))

\* the plane with its origin moved by d
ShiftedPlane(plane, d) ==
  [plane EXCEPT !.origin = [ref |-> @.ref, val |-> Shifted(@.val, d)]]

IsPlane(plane) ==
  /\ \A f \in {"origin", "xBasis", "yBasis"} :
       Is3DValue(plane[f].val) /\ IsFiniteValue(plane[f].val)
  /\ ~IsZeroValue(plane.xBasis.val) /\ ~IsZeroValue(plane.yBasis.val)

\* C14: for a plane with nonzero xBasis and yBasis (finite 3D vectors),
\* planeProjection(plane.origin, plane) is (0, 0), and for a 3D point p and
\* every 3D offset d, planeProjection(p + d, the plane with origin
\* plane.origin + d) equals planeProjection(p, plane).
C14_ProjectionIsRelative ==
  (/\ ret.op = "planeProjection"
   /\ Is3DValue(ret.arg[1].val) /\ IsFiniteValue(ret.arg[1].val)
   /\ IsPlane(ret.arg[2]))
  => /\ ret.arg[1].val = ret.arg[2].origin.val => ret.val.val = V2(0, 0)
     /\ \A d \in Offsets :
          ProjectionOf(Shifted(ret.arg[1].val, d), ShiftedPlane(ret.arg[2], d))
            = ret.val.val

\* a point off the origin of a plane whose axes are neither orthogonal nor of
\* unit length: the projection is not (0, 0) and a translation keeps it
C14_Witness ==
  /\ ret.op = "planeProjection"
  /\ Is3DValue(ret.arg[1].val) /\ IsFiniteValue(ret.arg[1].val)
  /\ IsPlane(ret.arg[2])
  /\ ret.arg[2].origin.val # ZEROValue
  /\ Dot(ret.arg[2].xBasis.val, ret.arg[2].yBasis.val) # Zero
  /\ Dot(ret.arg[2].xBasis.val, ret.arg[2].xBasis.val) # I(1)
  /\ IsFiniteValue(ret.val.val)
  /\ ret.val.val.x # Zero /\ ret.val.val.y # Zero
  /\ ProjectionOf(Shifted(ret.arg[1].val, V3(1, -1, 1)),
                  ShiftedPlane(ret.arg[2], V3(1, -1, 1))) = ret.val.val
  /\ ProjectionOf(ret.arg[2].origin.val, ret.arg[2]) = V2(0, 0)

====
